---- MODULE Spec2Model ----
(***************************************************************************)
(* Model of airflow/www_rbac/security.py: AirflowSecurityManager.          *)
(*                                                                         *)
(* The database is the record db: the FAB tables ab_permission,            *)
(* ab_view_menu, ab_permission_view, ab_role and the join table            *)
(* ab_permission_view_role.  Permissions, view-menus and roles are         *)
(* identified by their (unique) names; a permission-view row has an id     *)
(* and two nullable references.  The join table holds (permission_view_id, *)
(* role) pairs; a pair whose row was deleted dangles and is invisible to   *)
(* the ORM relationship role.permissions.                                  *)
(***************************************************************************)
EXTENDS Integers, FiniteSets, Sequences, TLC

\* Python's None (a NULL column, a failed lookup, a missing attribute).
None == "<None>"

\* Python truthiness of a name or a looked-up object.
Truthy(x) == x # None /\ x # ""

(***************************************************************************)
(* Role catalog, lines 34-164.                                             *)
(***************************************************************************)
VIEWER_VMS ==
    {"Airflow", "DagModelView", "Browse", "DAG Runs", "DagRunModelView",
     "Task Instances", "TaskInstanceModelView", "SLA Misses",
     "SlaMissModelView", "Jobs", "JobModelView", "Logs", "LogModelView",
     "Docs", "Documentation", "Github", "About", "Version", "VersionView"}

USER_VMS == VIEWER_VMS

OP_VMS ==
    {"Admin", "Configurations", "ConfigurationView", "Connections",
     "ConnectionModelView", "Pools", "PoolModelView", "Variables",
     "VariableModelView", "XComs", "XComModelView"}

VIEWER_PERMS ==
    {"menu_access", "can_index", "can_list", "can_show", "can_chart",
     "can_dag_stats", "can_dag_details", "can_task_stats", "can_code",
     "can_log", "can_get_logs_with_metadata", "can_tries", "can_graph",
     "can_tree", "can_task", "can_task_instances", "can_xcom", "can_gantt",
     "can_landing_times", "can_duration", "can_blocked", "can_rendered",
     "can_pickle_info", "can_version"}

USER_PERMS ==
    {"can_dagrun_clear", "can_run", "can_trigger", "can_add", "can_edit",
     "can_delete", "can_paused", "can_refresh", "can_success", "muldelete",
     "set_failed", "set_running", "set_success", "clear", "can_clear"}

OP_PERMS == {"can_conf", "can_varimport"}

DAG_VMS == {"all_dags"}

DAG_PERMS == {"can_dag_read", "can_dag_edit"}

ROLE_CONFIGS ==
    << [role |-> "Viewer",
        perms |-> VIEWER_PERMS,
        vms |-> VIEWER_VMS \cup DAG_VMS],
       [role |-> "User",
        perms |-> VIEWER_PERMS \cup USER_PERMS \cup DAG_PERMS,
        vms |-> VIEWER_VMS \cup DAG_VMS \cup USER_VMS],
       [role |-> "Op",
        perms |-> VIEWER_PERMS \cup USER_PERMS \cup OP_PERMS \cup DAG_PERMS,
        vms |-> VIEWER_VMS \cup DAG_VMS \cup USER_VMS \cup OP_VMS] >>

EXISTING_ROLES == {"Admin", "Viewer", "User", "Op", "Public"}

(***************************************************************************)
(* Iteration.  Python iterates a set, and a query returns its rows, in an  *)
(* order the program does not control; the passes below are folded over    *)
(* one fixed order, which only decides which fresh id a new row gets.      *)
(***************************************************************************)
RECURSIVE SetToSeq(_)
SetToSeq(S) ==
    IF S = {} THEN << >>
    ELSE LET x == CHOOSE y \in S : TRUE
         IN  << x >> \o SetToSeq(S \ {x})

\* for a in as: for b in bs: yield (a, b)
RECURSIVE Pairs(_, _)
Pairs(as, bs) ==
    IF as = << >> THEN << >>
    ELSE [i \in 1..Len(bs) |-> << Head(as), bs[i] >>] \o Pairs(Tail(as), bs)

(***************************************************************************)
(* The ORM surface the security manager uses.                              *)
(***************************************************************************)
\* Both references of a permission-view row are set.
IsValid(pv) == pv.permission # None /\ pv.view_menu # None

find_role(S, name) == IF name \in S.role THEN name ELSE None

add_role(S, name) == [S EXCEPT !.role = @ \cup {name}]

find_permission(S, name) == IF name \in S.permission THEN name ELSE None

find_view_menu(S, name) == IF name \in S.view_menu THEN name ELSE None

get_all_roles(S) == S.role

\* role.permissions: the rows the join table links to the role.
role_permissions(S, r) ==
    {pv \in S.permission_view : << pv.id, r >> \in S.assoc}

\* Creates the permission and the view-menu when absent, then the row.
add_permission_view_menu(S, permission_name, view_menu_name) ==
    [S EXCEPT
        !.permission = @ \cup {permission_name},
        !.view_menu = @ \cup {view_menu_name},
        !.permission_view = @ \cup {[id |-> S.next_id,
                                     permission |-> permission_name,
                                     view_menu |-> view_menu_name]},
        !.next_id = @ + 1]

(***************************************************************************)
(* Reconciliation passes.  Each is a function from database to database;   *)
(* X_raises says when the code of X raises before its first write.         *)
(***************************************************************************)
\* Role.permissions = new_pvms: the ORM deletes the join rows of the rows
\* taken out of the collection and inserts those of the rows put in.
set_role_permissions(S, r, new_pvms) ==
    LET old == role_permissions(S, r)
    IN  [S EXCEPT !.assoc =
            (@ \ {<< pv.id, r >> : pv \in old})
            \cup {<< pv.id, r >> : pv \in new_pvms}]

\* init_role with or in place of and in the test of a row's names.
init_role_or(S, role_name, role_vms, role_perms) ==
    LET pvms == {p \in S.permission_view : IsValid(p)}
        S1 == IF find_role(S, role_name) = None
              THEN add_role(S, role_name) ELSE S
    IN  IF Cardinality(role_permissions(S1, role_name)) = 0
        THEN LET role_pvms ==
                    {pvm \in pvms : \/ pvm.view_menu \in role_vms
                                    \/ pvm.permission \in role_perms}
             IN  set_role_permissions(S1, role_name, role_pvms)
        ELSE S1

\* init_role without the test that the role holds nothing.
init_role_reseeds(S, role_name, role_vms, role_perms) ==
    LET pvms == {p \in S.permission_view : IsValid(p)}
        S1 == IF find_role(S, role_name) = None
              THEN add_role(S, role_name) ELSE S
        role_pvms == {pvm \in pvms : /\ pvm.view_menu \in role_vms
                                     /\ pvm.permission \in role_perms}
    IN  set_role_permissions(S1, role_name, role_pvms)

init_role(S, role_name, role_vms, role_perms) ==
    LET pvms == {p \in S.permission_view : IsValid(p)}
        S1 == IF find_role(S, role_name) = None
              THEN add_role(S, role_name) ELSE S
    IN  IF Cardinality(role_permissions(S1, role_name)) = 0
        THEN LET role_pvms ==
                    {pvm \in pvms : /\ pvm.view_menu \in role_vms
                                    /\ pvm.permission \in role_perms}
             IN  set_role_permissions(S1, role_name, role_pvms)
        ELSE S1

\* foreign_keys: whether the database refuses to delete a row that the join
\* table still references (SQLite, the default backend, does not).
clean_perms_raises(S, foreign_keys) ==
    /\ foreign_keys
    /\ \E pv \in S.permission_view :
          /\ pv.permission = None \/ pv.view_menu = None
          /\ \E a \in S.assoc : a[1] = pv.id

\* clean_perms with and_ in place of or_.
clean_perms_and(S) ==
    [S EXCEPT !.permission_view =
        {pv \in @ : ~(pv.permission = None /\ pv.view_menu = None)}]

clean_perms(S) ==
    [S EXCEPT !.permission_view =
        {pv \in @ : ~(pv.permission = None \/ pv.view_menu = None)}]

\* _merge_perm testing the looked-up objects in place of the names.
_merge_perm_found_only(S, permission_name, view_menu_name) ==
    LET permission == find_permission(S, permission_name)
        view_menu == find_view_menu(S, view_menu_name)
        pv == IF Truthy(permission) /\ Truthy(view_menu)
              THEN \E row \in S.permission_view :
                      /\ row.permission = permission
                      /\ row.view_menu = view_menu
              ELSE FALSE
    IN  IF ~pv /\ Truthy(permission) /\ Truthy(view_menu)
        THEN add_permission_view_menu(S, permission_name, view_menu_name)
        ELSE S

_merge_perm(S, permission_name, view_menu_name) ==
    LET permission == find_permission(S, permission_name)
        view_menu == find_view_menu(S, view_menu_name)
        pv == IF Truthy(permission) /\ Truthy(view_menu)
              THEN \E row \in S.permission_view :
                      /\ row.permission = permission
                      /\ row.view_menu = view_menu
              ELSE FALSE
    IN  IF ~pv /\ Truthy(permission_name) /\ Truthy(view_menu_name)
        THEN add_permission_view_menu(S, permission_name, view_menu_name)
        ELSE S

\* (permission name, view-menu name) of every valid row, line 358-361.
all_pvs_of(S) ==
    {<< pv.permission, pv.view_menu >> :
        pv \in {p \in S.permission_view : IsValid(p)}}

\* The closure merge_pv; all_pvs is the set read before the first merge.
merge_pv(S, all_pvs, perm, view_menu) ==
    IF Truthy(view_menu) /\ Truthy(perm) /\ << view_menu, perm >> \notin all_pvs
    THEN _merge_perm(S, perm, view_menu)
    ELSE S

\* merge_pv over a sequence of (view-menu, perm) pairs.
RECURSIVE merge_pv_each(_, _, _)
merge_pv_each(S, all_pvs, todo) ==
    IF todo = << >> THEN S
    ELSE merge_pv_each(merge_pv(S, all_pvs, Head(todo)[2], Head(todo)[1]),
                       all_pvs, Tail(todo))

\* The DagModel rows that are active or paused, and no subdag.
all_dags_models_of(dags) ==
    {dag \in dags : (dag.is_active \/ dag.is_paused) /\ ~dag.is_subdag}

\* Lines 358-376: the permission-views of all_dags and of every listed dag.
create_dag_pvs(S, dags) ==
    LET all_pvs == all_pvs_of(S)
        S1 == merge_pv_each(S, all_pvs,
                  Pairs(SetToSeq(DAG_VMS), SetToSeq(DAG_PERMS)))
        ids == {dag.dag_id : dag \in all_dags_models_of(dags)}
    IN  merge_pv_each(S1, all_pvs, Pairs(SetToSeq(ids), SetToSeq(DAG_PERMS)))

\* Lines 381, 387, 395, 397: user_role.id and dag_vm.id of a failed lookup.
grant_dag_roles_raises(S) ==
    find_role(S, "User") = None \/ find_view_menu(S, "all_dags") = None

\* all_perm_views_of without the filter on the view-menu.
all_perm_views_of_unfiltered(S) ==
    LET user_role == find_role(S, "User")
    IN  {a[1] : a \in
            {b \in S.assoc :
                /\ b[2] = user_role
                /\ \E pv \in S.permission_view :
                      pv.id = b[1] /\ pv.view_menu # None}}

\* all_perm_views_of with == in place of != in the view-menu filter.
all_perm_views_of_wildcard(S) ==
    LET user_role == find_role(S, "User")
        dag_vm == find_view_menu(S, "all_dags")
    IN  {a[1] : a \in
            {b \in S.assoc :
                /\ b[2] = user_role
                /\ \E pv \in S.permission_view :
                      /\ pv.id = b[1]
                      /\ pv.view_menu # None
                      /\ pv.view_menu = dag_vm}}

\* Lines 392-398: ids of the User role's rows whose view-menu is set and is
\* not all_dags (an inner join and a != both drop a NULL view-menu).
all_perm_views_of(S) ==
    LET user_role == find_role(S, "User")
        dag_vm == find_view_menu(S, "all_dags")
    IN  {a[1] : a \in
            {b \in S.assoc :
                /\ b[2] = user_role
                /\ \E pv \in S.permission_view :
                      /\ pv.id = b[1]
                      /\ pv.view_menu # None
                      /\ pv.view_menu # dag_vm}}

\* update_perm_views_of without the subtraction of the role's own rows.
update_perm_views_of_all(S) ==
    LET all_roles == get_all_roles(S)
        dag_role == {role \in all_roles : role \notin EXISTING_ROLES}
        all_perm_views == all_perm_views_of(S)
    IN  UNION {{<< perm_view_id, role >> :
                    perm_view_id \in all_perm_views} :
               role \in dag_role}

\* Lines 383-411: the (permission_view_id, role) pairs to insert, those of
\* all_perm_views that each dag role lacks.
update_perm_views_of(S) ==
    LET all_roles == get_all_roles(S)
        dag_role == {role \in all_roles : role \notin EXISTING_ROLES}
        all_perm_views == all_perm_views_of(S)
        existing_perms_views(role) ==
            {a[1] : a \in {b \in S.assoc : b[2] = role}}
        missing_perm_views(role) ==
            all_perm_views \ existing_perms_views(role)
    IN  UNION {{<< perm_view_id, role >> :
                    perm_view_id \in missing_perm_views(role)} :
               role \in dag_role}

\* Lines 380-414: the bulk insert of the missing pairs of every dag role.
\* The join table is the set of its (permission_view_id, role) pairs; an
\* insert of no pairs adds none.
grant_dag_roles(S) ==
    [S EXCEPT !.assoc = @ \cup update_perm_views_of(S)]

create_custom_dag_permission_view(S, dags) ==
    grant_dag_roles(create_dag_pvs(S, dags))

update_admin_perm_view_raises(S) == find_role(S, "Admin") = None

\* update_admin_perm_view without the assignment to admin.permissions.
update_admin_perm_view_unassigned(S) == S

update_admin_perm_view(S) ==
    LET pvms == {p \in S.permission_view : IsValid(p)}
        admin == find_role(S, "Admin")
    IN  set_role_permissions(S, admin, role_permissions(S, admin) \cup pvms)

\* _merge_perm over a sequence of (view-menu, perm) pairs.
RECURSIVE merge_perm_each(_, _)
merge_perm_each(S, todo) ==
    IF todo = << >> THEN S
    ELSE merge_perm_each(_merge_perm(S, Head(todo)[2], Head(todo)[1]),
                         Tail(todo))

create_perm_vm_for_all_dag(S) ==
    merge_perm_each(S, Pairs(SetToSeq(DAG_VMS), SetToSeq(DAG_PERMS)))

\* for config in ROLE_CONFIGS: self.init_role(...)
RECURSIVE init_roles(_, _)
init_roles(S, configs) ==
    IF configs = << >> THEN S
    ELSE init_roles(init_role(S, Head(configs).role, Head(configs).vms,
                              Head(configs).perms),
                    Tail(configs))

\* Lines 439-453.  A pass that raises ends the run; what the earlier passes
\* committed stays.
sync_roles(S, dags, foreign_keys) ==
    LET S1 == create_perm_vm_for_all_dag(S)
        S2 == init_roles(S1, ROLE_CONFIGS)
        S3 == create_dag_pvs(S2, dags)
        S4 == grant_dag_roles(S3)
        S5 == update_admin_perm_view(S4)
    IN  IF grant_dag_roles_raises(S3) THEN [db |-> S3, raised |-> TRUE]
        ELSE IF update_admin_perm_view_raises(S4)
             THEN [db |-> S4, raised |-> TRUE]
        ELSE IF clean_perms_raises(S5, foreign_keys)
             THEN [db |-> S5, raised |-> TRUE]
        ELSE [db |-> clean_perms(S5), raised |-> FALSE]

(***************************************************************************)
(* The commits of a run.  X_commits is the sequence of the stores that the *)
(* commits of X leave, one element per commit that changes a table: other  *)
(* sessions read the store between two commits, never inside one.          *)
(***************************************************************************)
Committed(S, S1) == IF S1 = S THEN << >> ELSE << S1 >>

\* add_permission_view_menu commits each row it adds.
RECURSIVE merge_perm_commits(_, _)
merge_perm_commits(S, todo) ==
    IF todo = << >> THEN << >>
    ELSE LET S1 == _merge_perm(S, Head(todo)[2], Head(todo)[1])
         IN  Committed(S, S1) \o merge_perm_commits(S1, Tail(todo))

create_perm_vm_for_all_dag_commits(S) ==
    merge_perm_commits(S, Pairs(SetToSeq(DAG_VMS), SetToSeq(DAG_PERMS)))

\* add_role commits the new role (line 183); the assignment of
\* role.permissions is committed once, on line 193.
init_role_commits(S, role_name, role_vms, role_perms) ==
    LET S1 == IF find_role(S, role_name) = None
              THEN add_role(S, role_name) ELSE S
        S2 == init_role(S, role_name, role_vms, role_perms)
    IN  Committed(S, S1) \o Committed(S1, S2)

RECURSIVE init_roles_commits(_, _)
init_roles_commits(S, configs) ==
    IF configs = << >> THEN << >>
    ELSE LET c == Head(configs)
         IN  init_role_commits(S, c.role, c.vms, c.perms)
             \o init_roles_commits(init_role(S, c.role, c.vms, c.perms),
                                   Tail(configs))

RECURSIVE merge_pv_commits(_, _, _)
merge_pv_commits(S, all_pvs, todo) ==
    IF todo = << >> THEN << >>
    ELSE LET S1 == merge_pv(S, all_pvs, Head(todo)[2], Head(todo)[1])
         IN  Committed(S, S1) \o merge_pv_commits(S1, all_pvs, Tail(todo))

create_dag_pvs_commits(S, dags) ==
    LET all_pvs == all_pvs_of(S)
        ids == {dag.dag_id : dag \in all_dags_models_of(dags)}
    IN  merge_pv_commits(S, all_pvs,
            Pairs(SetToSeq(DAG_VMS), SetToSeq(DAG_PERMS))
            \o Pairs(SetToSeq(ids), SetToSeq(DAG_PERMS)))

\* grant_dag_roles_commits with a commit after the insert of each pair.
grant_dag_roles_commits_each(S) ==
    LET update_perm_views == SetToSeq(update_perm_views_of(S))
    IN  [i \in 1..Len(update_perm_views) |->
            [S EXCEPT !.assoc =
                @ \cup {update_perm_views[j] : j \in 1..i}]]

\* Lines 413-414: one execute of the whole list, then one commit.
grant_dag_roles_commits(S) == Committed(S, grant_dag_roles(S))

\* Lines 427-429: one assignment, one commit.
update_admin_perm_view_commits(S) == Committed(S, update_admin_perm_view(S))

\* The commits of sync_roles before clean_perms, whose commit (line 312) is
\* the last store access of the run.
sync_roles_commits(S, dags) ==
    LET T1 == create_perm_vm_for_all_dag_commits(S)
        S1 == create_perm_vm_for_all_dag(S)
        T2 == init_roles_commits(S1, ROLE_CONFIGS)
        S2 == init_roles(S1, ROLE_CONFIGS)
        T3 == create_dag_pvs_commits(S2, dags)
        S3 == create_dag_pvs(S2, dags)
        T4 == IF grant_dag_roles_raises(S3) THEN << >>
              ELSE grant_dag_roles_commits(S3)
        S4 == grant_dag_roles(S3)
        T5 == IF grant_dag_roles_raises(S3)
                 \/ update_admin_perm_view_raises(S4)
              THEN << >>
              ELSE update_admin_perm_view_commits(S4)
    IN  T1 \o T2 \o T3 \o T4 \o T5

\* The row of the two names, None when a name or the row is unknown.
find_permission_view_menu(S, permission_name, view_menu_name) ==
    LET permission == find_permission(S, permission_name)
        view_menu == find_view_menu(S, view_menu_name)
    IN  IF /\ Truthy(permission)
           /\ Truthy(view_menu)
           /\ \E row \in S.permission_view :
                 row.permission = permission /\ row.view_menu = view_menu
        THEN << permission, view_menu >>
        ELSE None

RECURSIVE sync_perm_each(_, _, _)
sync_perm_each(S, dag_perms, dag_id) ==
    IF dag_perms = << >> THEN S
    ELSE LET dag_perm == Head(dag_perms)
             perm_on_dag == find_permission_view_menu(S, dag_perm, dag_id)
         IN  sync_perm_each(
                 IF perm_on_dag = None
                 THEN add_permission_view_menu(S, dag_perm, dag_id)
                 ELSE S,
                 Tail(dag_perms), dag_id)

sync_perm_for_dag(S, dag_id) ==
    sync_perm_each(S, SetToSeq(DAG_PERMS), dag_id)

(***************************************************************************)
(* Access queries.  user is flask.g.user; a user is a record of            *)
(* is_anonymous and roles (the names of its Role objects).                 *)
(***************************************************************************)
\* The roles of g.user; find_role may put None in the list.
get_user_roles(S, user, public_role) ==
    IF user.is_anonymous
    THEN IF Truthy(public_role) THEN {find_role(S, public_role)} ELSE {}
    ELSE user.roles

\* role.permissions of None, or .name of a missing permission or view-menu.
get_all_permissions_views_raises(S, user, public_role) ==
    \E role \in get_user_roles(S, user, public_role) :
        \/ role = None
        \/ \E perm_view \in role_permissions(S, role) :
              perm_view.permission = None \/ perm_view.view_menu = None

get_all_permissions_views(S, user, public_role) ==
    UNION {{<< perm_view.permission, perm_view.view_menu >> :
                perm_view \in role_permissions(S, role)} :
           role \in get_user_roles(S, user, public_role) \ {None}}

\* r.name of None.
has_role_raises(S, user, public_role) ==
    None \in get_user_roles(S, user, public_role)

_has_role(S, user, public_role, role_name_or_list) ==
    \E r \in get_user_roles(S, user, public_role) : r \in role_name_or_list

\* self.perms is [cached |-> hasattr(self, 'perms'), pvs |-> self.perms].
_get_and_cache_perms(S, user, public_role) ==
    [cached |-> TRUE, pvs |-> get_all_permissions_views(S, user, public_role)]

\* _has_perm that answers from self.perms whenever the attribute exists.
_has_perm_cached(cache, S, user, public_role, permission_name, view_menu_name) ==
    IF cache.cached
    THEN [ret |-> << permission_name, view_menu_name >> \in cache.pvs,
          raised |-> FALSE, perms |-> cache]
    ELSE IF get_all_permissions_views_raises(S, user, public_role)
         THEN [ret |-> FALSE, raised |-> TRUE, perms |-> cache]
         ELSE LET rebuilt == _get_and_cache_perms(S, user, public_role)
              IN  [ret |-> << permission_name, view_menu_name >>
                               \in rebuilt.pvs,
                   raised |-> FALSE,
                   perms |-> rebuilt]

_has_perm(cache, S, user, public_role, permission_name, view_menu_name) ==
    IF cache.cached /\ << permission_name, view_menu_name >> \in cache.pvs
    THEN [ret |-> TRUE, raised |-> FALSE, perms |-> cache]
    ELSE IF get_all_permissions_views_raises(S, user, public_role)
         THEN [ret |-> FALSE, raised |-> TRUE, perms |-> cache]
         ELSE LET rebuilt == _get_and_cache_perms(S, user, public_role)
              IN  [ret |-> << permission_name, view_menu_name >>
                               \in rebuilt.pvs,
                   raised |-> FALSE,
                   perms |-> rebuilt]

has_all_dags_access(cache, S, user, public_role) ==
    IF has_role_raises(S, user, public_role)
    THEN [ret |-> FALSE, raised |-> TRUE, perms |-> cache]
    ELSE IF _has_role(S, user, public_role, {"Admin", "Viewer", "Op", "User"})
         THEN [ret |-> TRUE, raised |-> FALSE, perms |-> cache]
         ELSE LET read == _has_perm(cache, S, user, public_role,
                                    "can_dag_read", "all_dags")
              IN  IF read.raised \/ read.ret THEN read
                  ELSE _has_perm(read.perms, S, user, public_role,
                                 "can_dag_edit", "all_dags")

\* 'Public' in username.roles: a str is compared with Role objects, and
\* Role defines no equality with a str, so no element is equal to it.
str_in_roles(name, roles) == \E role \in roles : FALSE

\* username is the user the caller passed, or g.user; the permission-views
\* are those of g.user.
get_accessible_dag_ids(S, user, public_role, username) ==
    IF username.is_anonymous \/ str_in_roles("Public", username.roles)
    THEN [ids |-> {}, raised |-> FALSE]
    ELSE LET roles == username.roles
         IN  IF {"Admin", "Viewer", "User", "Op"} \cap roles # {}
             THEN [ids |-> DAG_VMS, raised |-> FALSE]
             ELSE IF get_all_permissions_views_raises(S, user, public_role)
                  THEN [ids |-> {}, raised |-> TRUE]
                  ELSE LET user_perms_views ==
                               get_all_permissions_views(S, user, public_role)
                       IN  [ids |-> {pv[2] : pv \in
                                       {q \in user_perms_views :
                                           q[1] \in DAG_PERMS}},
                            raised |-> FALSE]

(***************************************************************************)
(* State.                                                                  *)
(***************************************************************************)
VARIABLES
    db,               \* the FAB tables
    dag_model,        \* the DagModel table (read only)
    foreign_keys,     \* the backend enforces the join table's foreign keys
    auth_role_public, \* appbuilder.config['AUTH_ROLE_PUBLIC'], or None
    g_user,           \* flask.g.user of the request being served
    perms,            \* the attribute self.perms of the security manager
    last,             \* the last call: its name, arguments and outcome
    pre,              \* db as it was when the last call began
    synced            \* sync_roles has completed at least once

vars == << db, dag_model, foreign_keys, auth_role_public, g_user, perms,
           last, pre, synced >>

\* Bounds of the initial database and of the users.
MaxInitRows == 2
MaxInitAssoc == 2

\* Rows an initial database may hold: a Viewer-level grant, a wildcard
\* grant, a faulty row (its permission was deleted), and a grant whose
\* view-menu is named like a dag permission.
InitRowPool ==
    << [id |-> 1, permission |-> "can_index", view_menu |-> "Airflow"],
       [id |-> 2, permission |-> "can_dag_read", view_menu |-> "all_dags"],
       [id |-> 3, permission |-> None, view_menu |-> "Airflow"],
       [id |-> 4, permission |-> "can_dag_read", view_menu |-> "can_dag_edit"] >>

\* Roles an initial database may hold; "dag_role" is a dag-level role.
StoreRolePool == {"Admin", "User", "dag_role"}
AccessRolePool == {"Public", "dag_role"}

\* Role sets of the users that send requests.
UserRolePool == {{"Public"}, {"dag_role"}, {"Public", "User"}}

\* Rows the DagModel table may hold.
DagPool ==
    { [dag_id |-> "d1", is_active |-> TRUE, is_paused |-> FALSE,
       is_subdag |-> FALSE],
      [dag_id |-> "can_dag_read", is_active |-> FALSE, is_paused |-> TRUE,
       is_subdag |-> FALSE],
      [dag_id |-> "d1.sub", is_active |-> TRUE, is_paused |-> FALSE,
       is_subdag |-> TRUE] }

\* Dag ids the refresh view may pass to sync_perm_for_dag.
DagIds == {"d1"}

AnonymousUser == [is_anonymous |-> TRUE, roles |-> {}]

NoCall ==
    [op |-> "none", raised |-> FALSE, ret |-> FALSE, ids |-> {},
     dag_id |-> None, username |-> AnonymousUser, again |-> FALSE,
     had_perms |-> FALSE, running |-> FALSE, step |-> 0, failed |-> FALSE,
     pvs |-> {}]

\* Databases of at most MaxInitRows rows of rowPool, with the roles
\* always and some roles of rolePool, and at most MaxInitAssoc join rows
\* between them.
InitDb(rowPool, always, rolePool) ==
    {[permission |-> {r.permission : r \in t[1]} \ {None},
      view_menu |-> {r.view_menu : r \in t[1]} \ {None},
      permission_view |-> t[1],
      role |-> always \cup t[2],
      assoc |-> t[3],
      next_id |-> Len(InitRowPool) + 1] :
        t \in
            {u \in (SUBSET rowPool)
                   \X (SUBSET rolePool)
                   \X (SUBSET ({r.id : r \in rowPool} \X rolePool)) :
                /\ Cardinality(u[1]) <= MaxInitRows
                /\ Cardinality(u[3]) <= MaxInitAssoc
                /\ \A a \in u[3] :
                      /\ a[1] \in {r.id : r \in u[1]}
                      /\ a[2] \in u[2]}}

InitCalls ==
    /\ g_user = AnonymousUser
    /\ perms = [cached |-> FALSE, pvs |-> {}]
    /\ last = NoCall
    /\ pre = db
    /\ synced = FALSE

\* The write side: any rows, Admin, User and a dag role present or not,
\* any DagModel table, either kind of backend.
InitStore ==
    /\ db \in InitDb({InitRowPool[i] : i \in 1..Len(InitRowPool)},
                     {}, StoreRolePool)
    /\ dag_model \in SUBSET DagPool
    /\ foreign_keys \in BOOLEAN
    /\ auth_role_public = "Public"
    /\ InitCalls

\* The read side: Admin present (create_db), Public and a dag role present
\* or not and holding any of the rows but the first, the public role
\* configured or not.
Init ==
    /\ db \in InitDb({InitRowPool[i] : i \in 2..Len(InitRowPool)},
                     {"Admin"}, AccessRolePool)
    /\ dag_model = DagPool
    /\ foreign_keys = FALSE
    /\ auth_role_public \in {"Public", None}
    /\ InitCalls

(***************************************************************************)
(* Write-side calls.                                                       *)
(***************************************************************************)
Sync ==
    LET r == sync_roles(db, dag_model, foreign_keys)
    IN  /\ db' = r.db
        /\ pre' = db
        /\ last' = [NoCall EXCEPT
                      !.op = "sync_roles",
                      !.raised = r.raised,
                      !.again = (last.op = "sync_roles" /\ ~last.raised)]
        /\ synced' = (synced \/ ~r.raised)
        /\ UNCHANGED << dag_model, foreign_keys, auth_role_public, g_user,
                        perms >>

SyncPermForDag ==
    \E dag_id \in DagIds :
        /\ db' = sync_perm_for_dag(db, dag_id)
        /\ pre' = db
        /\ last' = [NoCall EXCEPT !.op = "sync_perm_for_dag",
                                  !.dag_id = dag_id]
        /\ UNCHANGED << dag_model, foreign_keys, auth_role_public, g_user,
                        perms, synced >>

(***************************************************************************)
(* Read-side calls, each made while serving a request of some user.        *)
(***************************************************************************)
\* The users whose roles exist.
Users ==
    {AnonymousUser}
    \cup {[is_anonymous |-> FALSE, roles |-> R] :
            R \in {Q \in UserRolePool : Q \subseteq db.role}}

HasAllDagsAccess ==
    \E u \in Users :
        LET r == has_all_dags_access(perms, db, u, auth_role_public)
        IN  /\ g_user' = u
            /\ perms' = r.perms
            /\ last' = [NoCall EXCEPT !.op = "has_all_dags_access",
                                      !.raised = r.raised,
                                      !.ret = r.ret,
                                      !.had_perms = perms.cached]
            /\ pre' = db
            /\ UNCHANGED << db, dag_model, foreign_keys, auth_role_public,
                            synced >>

\* given: the caller passed username; otherwise it is g.user.
GetAccessibleDagIds ==
    \E u \in Users, given \in BOOLEAN :
      \E passed \in IF given THEN Users ELSE {u} :
        LET username == passed
            r == get_accessible_dag_ids(db, u, auth_role_public, username)
        IN  /\ g_user' = u
            /\ last' = [NoCall EXCEPT !.op = "get_accessible_dag_ids",
                                      !.raised = r.raised,
                                      !.ids = r.ids,
                                      !.username = username]
            /\ pre' = db
            /\ UNCHANGED << db, dag_model, foreign_keys, auth_role_public,
                            perms, synced >>

(***************************************************************************)
(* sync_roles commit by commit, with a store that may fail under it and    *)
(* requests of other sessions that read between its commits.               *)
(***************************************************************************)
\* Rows the DagModel table may hold here: two dags named like the dag
\* permissions.
StepDagPool ==
    { [dag_id |-> "can_dag_read", is_active |-> FALSE, is_paused |-> TRUE,
       is_subdag |-> FALSE],
      [dag_id |-> "can_dag_edit", is_active |-> TRUE, is_paused |-> FALSE,
       is_subdag |-> FALSE] }

\* Roles of the users whose requests read during a run.
StepReaderRoles == {"Admin", "User", "dag_role"}

InitSteps ==
    /\ db \in InitDb({InitRowPool[i] : i \in 1..Len(InitRowPool)},
                     {"Admin"}, {"User", "dag_role"})
    /\ dag_model \in {{}, StepDagPool}
    /\ foreign_keys = FALSE
    /\ auth_role_public = "Public"
    /\ InitCalls

\* sync_roles is called.
SyncStart ==
    /\ ~last.running
    /\ pre' = db
    /\ last' = [NoCall EXCEPT !.op = "sync_roles", !.running = TRUE]
    /\ UNCHANGED << db, dag_model, foreign_keys, auth_role_public, g_user,
                    perms, synced >>

\* The run makes its next commit.
SyncCommit ==
    LET T == sync_roles_commits(pre, dag_model)
    IN  /\ last.running
        /\ last.step < Len(T)
        /\ db' = T[last.step + 1]
        /\ last' = [NoCall EXCEPT !.op = "sync_roles", !.running = TRUE,
                                  !.step = last.step + 1]
        /\ UNCHANGED << pre, dag_model, foreign_keys, auth_role_public,
                        g_user, perms, synced >>

\* After its last commit the run raises where sync_roles raises, or runs
\* clean_perms and returns.
SyncReturn ==
    LET T == sync_roles_commits(pre, dag_model)
        raises == \/ sync_roles(pre, dag_model, foreign_keys).raised
    IN  /\ last.running
        /\ last.step = Len(T)
        /\ db' = IF raises THEN db ELSE clean_perms(db)
        /\ last' = [NoCall EXCEPT !.op = "sync_roles", !.raised = raises]
        /\ synced' = (synced \/ ~raises)
        /\ UNCHANGED << pre, dag_model, foreign_keys, auth_role_public,
                        g_user, perms >>

\* The store fails under the run after one of its commits: the call raises
\* and what it committed stays.
SyncFails ==
    /\ last.running
    /\ last.step >= 1
    /\ last' = [NoCall EXCEPT !.op = "sync_roles", !.raised = TRUE,
                              !.failed = TRUE]
    /\ UNCHANGED << db, pre, dag_model, foreign_keys, auth_role_public,
                    g_user, perms, synced >>

\* A request of another session reads the permission-views of its user.
GetAllPermissionsViews ==
    \E R \in StepReaderRoles \cap db.role :
        LET u == [is_anonymous |-> FALSE, roles |-> {R}]
        IN  /\ ~get_all_permissions_views_raises(db, u, auth_role_public)
            /\ last' = [last EXCEPT
                          !.op = "get_all_permissions_views",
                          !.username = u,
                          !.pvs = get_all_permissions_views(
                                      db, u, auth_role_public)]
            /\ UNCHANGED << db, pre, dag_model, foreign_keys,
                            auth_role_public, g_user, perms, synced >>

NextStore == Sync \/ SyncPermForDag

NextSteps ==
    SyncStart \/ SyncCommit \/ SyncReturn \/ SyncFails
        \/ GetAllPermissionsViews

Next == Sync \/ SyncPermForDag \/ HasAllDagsAccess \/ GetAccessibleDagIds

\* The write-side calls alone.
SpecStore == InitStore /\ [][NextStore]_vars

\* Every call.
Spec == Init /\ [][Next]_vars

\* sync_roles commit by commit.
SpecSteps == InitSteps /\ [][NextSteps]_vars

(***************************************************************************)
(* Properties of the write side.                                           *)
(***************************************************************************)
valid_pvs(S) == {p \in S.permission_view : IsValid(p)}

\* The last call was sync_roles and it returned.
SyncCompleted == last.op = "sync_roles" /\ ~last.raised

\* C1 (as claimed): a sync_roles that directly follows a completed
\* sync_roles leaves every table as the first call left it.
C1_SecondSyncChangesNothing ==
    (SyncCompleted /\ last.again) => db = pre

\* C2 (as claimed): a built-in role that held a permission-view before
\* sync_roles holds exactly the same ones after it.
C2_BuiltinRoleUntouched ==
    SyncCompleted =>
        \A r \in EXISTING_ROLES \cap pre.role :
            role_permissions(pre, r) # {} =>
                role_permissions(db, r) = role_permissions(pre, r)

\* C2 (amended): a built-in role other than Admin that held a
\* permission-view before sync_roles holds after it exactly the valid ones
\* it held before; it is not re-seeded from ROLE_CONFIGS.
C2_SeededRoleKeepsValid ==
    SyncCompleted =>
        \A r \in (EXISTING_ROLES \ {"Admin"}) \cap pre.role :
            role_permissions(pre, r) # {} =>
                role_permissions(db, r) =
                    {p \in role_permissions(pre, r) : IsValid(p)}

\* C2 witness: sync_roles completed for a configured role that held a
\* permission-view and lacks one its configuration names.
C2_Witness ==
    /\ SyncCompleted
    /\ \E i \in 1..Len(ROLE_CONFIGS) :
          LET c == ROLE_CONFIGS[i]
          IN  /\ c.role \in pre.role
              /\ role_permissions(pre, c.role) # {}
              /\ \E p \in valid_pvs(pre) :
                    /\ p.permission \in c.perms
                    /\ p.view_menu \in c.vms
                    /\ p \notin role_permissions(db, c.role)

NonWildcard(pvs) == {p \in pvs : p.view_menu \notin DAG_VMS}

\* C3: after sync_roles every role outside EXISTING_ROLES holds every
\* permission-view the User role holds on a view-menu other than all_dags.
C3_DagRolesCoverUser ==
    SyncCompleted =>
        \A R \in db.role \ EXISTING_ROLES :
            NonWildcard(role_permissions(db, "User"))
                \subseteq NonWildcard(role_permissions(db, R))

\* C3 witness: the run gave a dag role a User permission-view it lacked.
C3_Witness ==
    /\ SyncCompleted
    /\ \E R \in pre.role \ EXISTING_ROLES :
          \E p \in NonWildcard(role_permissions(db, "User")) :
              /\ p \notin role_permissions(pre, R)
              /\ p \in role_permissions(db, R)

\* C4 (as claimed): after sync_roles Admin holds what it held before the
\* run together with every valid permission-view of the store.
C4_AdminIsPreUnionValid ==
    SyncCompleted =>
        role_permissions(db, "Admin") =
            role_permissions(pre, "Admin") \cup valid_pvs(db)

\* C4 (amended): after sync_roles Admin holds the valid permission-views it
\* held before the run together with every valid permission-view of the
\* store; a faulty one it held is gone.
C4_AdminIsValidPreUnionValid ==
    SyncCompleted =>
        role_permissions(db, "Admin") =
            {p \in role_permissions(pre, "Admin") : IsValid(p)}
                \cup valid_pvs(db)

\* C4 witness: Admin held a faulty permission-view and the run created a row.
C4_Witness ==
    /\ SyncCompleted
    /\ \E p \in role_permissions(pre, "Admin") : ~IsValid(p)
    /\ db.permission_view \ pre.permission_view # {}

\* C5: after sync_roles no permission-view row lacks its permission or its
\* view-menu.
C5_NoFaultyRow ==
    SyncCompleted => \A p \in db.permission_view : IsValid(p)

\* C5 witness: the store held a faulty row when the run began.
C5_Witness ==
    /\ SyncCompleted
    /\ \E p \in pre.permission_view : ~IsValid(p)

\* C6 (as claimed): once sync_roles has completed, Admin holds every valid
\* permission-view of the store, in every later state.
C6_AdminCoversValid ==
    synced => valid_pvs(db) \subseteq role_permissions(db, "Admin")

HasPv(S, perm, vm) ==
    \E p \in S.permission_view : p.permission = perm /\ p.view_menu = vm

\* C7: once sync_roles has completed, (can_dag_read, all_dags) and
\* (can_dag_edit, all_dags) exist in every later state.
C7_WildcardPvsStay ==
    synced => \A perm \in DAG_PERMS : HasPv(db, perm, "all_dags")

\* C7 witness: a call after the first completed sync_roles, with a wildcard
\* row that the program created.
C7_Witness ==
    /\ synced
    /\ last.op \notin {"none", "sync_roles"}
    /\ \E p \in db.permission_view :
          p.view_menu = "all_dags" /\ p.id > Len(InitRowPool)

\* C8 (as claimed): after sync_roles every listed dag that is active or
\* paused and no subdag has both dag permission-views, whatever its id and
\* whatever rows the store held; no row is created for a dag filtered out.
C8_ListedDagsGetBothPvs ==
    SyncCompleted =>
        /\ \A dag \in all_dags_models_of(dag_model) :
              \A perm \in DAG_PERMS : HasPv(db, perm, dag.dag_id)
        /\ \A dag \in dag_model \ all_dags_models_of(dag_model) :
              \A p \in db.permission_view \ pre.permission_view :
                  p.view_menu # dag.dag_id

(***************************************************************************)
(* Properties of the read side.                                            *)
(***************************************************************************)
\* The permission-views the roles of the user hold in S.
EffectivePvs(S, user, public_role) ==
    UNION {{<< p.permission, p.view_menu >> : p \in role_permissions(S, role)} :
           role \in get_user_roles(S, user, public_role) \ {None}}

\* C9 (as claimed): has_all_dags_access returns True exactly when g.user
\* holds a role named Admin, Viewer, Op or User, or its own permission-views
\* in the store now contain can_dag_read or can_dag_edit on all_dags,
\* whatever calls were made before.
C9_AllDagsAccessIsOfCurrentUser ==
    (last.op = "has_all_dags_access" /\ ~last.raised) =>
        (last.ret <=>
            \/ get_user_roles(db, g_user, auth_role_public)
                   \cap {"Admin", "Viewer", "Op", "User"} # {}
            \/ \E perm \in DAG_PERMS :
                  << perm, "all_dags" >>
                      \in EffectivePvs(db, g_user, auth_role_public))

\* C10 (as claimed): what get_accessible_dag_ids returns for an anonymous
\* user, and for a user that holds the role named Public, is the empty set.
C10_PublicUserGetsNothing ==
    (/\ last.op = "get_accessible_dag_ids"
     /\ ~last.raised
     /\ last.username.is_anonymous \/ "Public" \in last.username.roles)
        => last.ids = {}

\* The user holds a role named Admin, Viewer, Op or User, or a
\* permission-view that pairs a dag permission with all_dags.
HoldsAllDags(S, user, public_role) ==
    \/ get_user_roles(S, user, public_role)
           \cap {"Admin", "Viewer", "Op", "User"} # {}
    \/ \E perm \in DAG_PERMS :
          << perm, "all_dags" >> \in EffectivePvs(S, user, public_role)

\* C11 (as claimed): for a user that is neither anonymous nor in the role
\* Public, get_accessible_dag_ids returns {all_dags} when the user has access
\* to all dags, and otherwise the view-menus that the permission-views of the
\* user passed to the call pair with can_dag_read or can_dag_edit.
C11_DagIdsAreOfPassedUser ==
    (/\ last.op = "get_accessible_dag_ids"
     /\ ~last.raised
     /\ ~last.username.is_anonymous
     /\ "Public" \notin last.username.roles)
        => last.ids =
              IF HoldsAllDags(db, last.username, auth_role_public)
              THEN {"all_dags"}
              ELSE {pv[2] : pv \in
                      {q \in EffectivePvs(db, last.username, auth_role_public) :
                          q[1] \in DAG_PERMS}}

\* C12 (as claimed): sync_roles returns, and after it every role of
\* EXISTING_ROLES exists, whatever roles the store held, Admin or not.
C12_SyncCreatesBuiltinRoles ==
    last.op = "sync_roles" =>
        /\ ~last.raised
        /\ EXISTING_ROLES \subseteq db.role

\* C14 (as claimed): after sync_roles every row of the join table refers to
\* a permission-view row that exists and has its permission and its
\* view-menu, also when a role held a faulty one before the run.
C14_JoinRowsReferValidPvs ==
    SyncCompleted =>
        \A a \in db.assoc :
            \E p \in db.permission_view : p.id = a[1] /\ IsValid(p)

\* The configured roles that held nothing, or did not exist, in S.
EmptyConfigs(S) ==
    {c \in {ROLE_CONFIGS[i] : i \in 1..Len(ROLE_CONFIGS)} :
        role_permissions(S, c.role) = {}}

\* C15: init_role for a role that holds nothing gives it exactly the valid
\* rows of the store at that moment whose permission is in the role's perms
\* and whose view-menu is in the role's vms.  The store at that moment is the
\* one create_perm_vm_for_all_dag left, and no later pass touches the role.
C15_EmptyRoleIsSeededExactly ==
    SyncCompleted =>
        \A c \in EmptyConfigs(pre) :
            role_permissions(db, c.role) =
                {p \in valid_pvs(create_perm_vm_for_all_dag(pre)) :
                    p.permission \in c.perms /\ p.view_menu \in c.vms}

\* C15 witness: a configured role that held nothing was seeded with some
\* row, and a valid row with one matching name only was left out.
C15_Witness ==
    /\ SyncCompleted
    /\ \E c \in EmptyConfigs(pre) :
          /\ role_permissions(db, c.role) # {}
          /\ \E p \in valid_pvs(pre) :
                /\ p.permission \in c.perms
                /\ p.view_menu \notin c.vms
                /\ p \notin role_permissions(db, c.role)

\* C16 (as claimed): after sync_roles every dag role holds exactly what it
\* held before the run together with what User holds on view-menus other
\* than all_dags; nothing it held is removed.
C16_DagRoleIsPreUnionUser ==
    SyncCompleted =>
        \A R \in pre.role \ EXISTING_ROLES :
            role_permissions(db, R) =
                role_permissions(pre, R)
                    \cup NonWildcard(role_permissions(db, "User"))

\* C16 (amended): after sync_roles every dag role holds exactly the valid
\* rows it held before the run together with what User holds on view-menus
\* other than all_dags; no wildcard row is added.
C16_DagRoleIsValidPreUnionUser ==
    SyncCompleted =>
        \A R \in pre.role \ EXISTING_ROLES :
            role_permissions(db, R) =
                {p \in role_permissions(pre, R) : IsValid(p)}
                    \cup NonWildcard(role_permissions(db, "User"))

\* C16 witness: a dag role that held a faulty row got a row of User, and
\* did not get a wildcard row that User holds.
C16_Witness ==
    /\ SyncCompleted
    /\ \E R \in pre.role \ EXISTING_ROLES :
          /\ \E p \in role_permissions(pre, R) : ~IsValid(p)
          /\ role_permissions(db, R) \ role_permissions(pre, R) # {}
          /\ \E p \in role_permissions(db, "User") :
                p.view_menu \in DAG_VMS /\ p \notin role_permissions(db, R)

\* The store on which pass 4 of a sync_roles that began in S runs.
BeforeGrant(S, dags) ==
    create_dag_pvs(init_roles(create_perm_vm_for_all_dag(S), ROLE_CONFIGS),
                   dags)

\* C17: in every state no two valid permission-view rows have the same
\* permission and view-menu, and the pairs that pass 4 of sync_roles inserts
\* into the join table are none of the pairs the table already holds.
C17_NoDuplicateRowOrPair ==
    /\ \A p, q \in valid_pvs(db) :
          (p.permission = q.permission /\ p.view_menu = q.view_menu)
              => p = q
    /\ (last.op = "sync_roles"
        /\ ~grant_dag_roles_raises(BeforeGrant(pre, dag_model)))
          => update_perm_views_of(BeforeGrant(pre, dag_model))
                 \cap BeforeGrant(pre, dag_model).assoc = {}

\* C17 witness: sync_roles ran while a dag role already held a row of User
\* that pass 4 propagates, and every dag permission-view row already existed.
C17_Witness ==
    /\ SyncCompleted
    /\ \E a \in pre.assoc :
          /\ a[2] \notin EXISTING_ROLES
          /\ a[1] \in all_perm_views_of(BeforeGrant(pre, dag_model))
    /\ db.permission_view \subseteq pre.permission_view

\* The last call was has_all_dags_access, no role name decided it, and its
\* calls of _has_perm returned.
HasPermReturned ==
    /\ last.op = "has_all_dags_access"
    /\ ~last.raised
    /\ ~_has_role(db, g_user, auth_role_public,
                  {"Admin", "Viewer", "Op", "User"})

\* C19: when _has_perm returned False, or was called while self.perms did
\* not exist, self.perms is afterwards the permission-views that g.user has
\* in the store; when it returned False for both dag permissions, g.user has
\* neither on all_dags.
C19_DenialIsFromFreshPerms ==
    (HasPermReturned /\ (~last.ret \/ ~last.had_perms)) =>
        /\ perms = [cached |-> TRUE,
                    pvs |-> EffectivePvs(db, g_user, auth_role_public)]
        /\ ~last.ret =>
              \A perm \in DAG_PERMS :
                  << perm, "all_dags" >>
                      \notin EffectivePvs(db, g_user, auth_role_public)

\* C19 witness: _has_perm returned False while self.perms existed, and the
\* rebuilt set is not empty.
C19_Witness ==
    /\ HasPermReturned
    /\ ~last.ret
    /\ last.had_perms
    /\ perms.pvs # {}

\* C20 (as claimed): for an anonymous user, when AUTH_ROLE_PUBLIC names a
\* role that does not exist, has_all_dags_access returns False and does not
\* raise; when AUTH_ROLE_PUBLIC is not set, get_user_roles is empty.
C20_MissingPublicRoleIsNoAccess ==
    /\ (/\ last.op = "has_all_dags_access"
        /\ g_user.is_anonymous
        /\ Truthy(auth_role_public)
        /\ auth_role_public \notin db.role)
          => (~last.raised /\ ~last.ret)
    /\ ~Truthy(auth_role_public)
          => get_user_roles(db, AnonymousUser, auth_role_public) = {}

(***************************************************************************)
(* Properties of a run taken commit by commit.                             *)
(***************************************************************************)
\* C13 (as claimed): when the store failed under sync_roles after a commit,
\* a sync_roles called again returns and leaves the store that one
\* sync_roles from the store the failed run began with would have left.
C13_RerunEqualsUninterrupted ==
    (/\ last.failed
     /\ ~sync_roles(pre, dag_model, foreign_keys).raised)
        => /\ ~sync_roles(db, dag_model, foreign_keys).raised
           /\ sync_roles(db, dag_model, foreign_keys).db
                  = sync_roles(pre, dag_model, foreign_keys).db

\* The store after the last commit that a run begun in S makes before
\* clean_perms.
RunEnd(S, dags) ==
    LET T == sync_roles_commits(S, dags)
    IN  IF T = << >> THEN S ELSE T[Len(T)]

\* (permission, view-menu) of the rows of role R in S.
RolePairs(S, R) ==
    {<< p.permission, p.view_menu >> : p \in role_permissions(S, R)}

\* The last call read the permission-views of a user while sync_roles ran.
ReadDuringSync ==
    last.op = "get_all_permissions_views" /\ last.running

\* C18: what a request reads as the permission-views of a role between two
\* commits of a running sync_roles is what the role held when the run began
\* or what it holds after the one commit of the run that changes it (the
\* seeding, the bulk insert, the Admin update), never a part of the change.
C18_ReaderSeesWholeSteps ==
    ReadDuringSync =>
        \A R \in last.username.roles :
            \/ last.pvs = RolePairs(pre, R)
            \/ last.pvs = RolePairs(RunEnd(pre, dag_model), R)

\* C18 witness: a request read, before the last commit of the run, a role
\* that one commit had given two permission-views or more.
C18_Witness ==
    /\ ReadDuringSync
    /\ db # RunEnd(pre, dag_model)
    /\ \E R \in last.username.roles :
          Cardinality(last.pvs \ RolePairs(pre, R)) >= 2

====
